---- MODULE Spec2Model ----
(***************************************************************************)
(* Model of nexus-ai's schema initializer (src/src/core/database.py) and   *)
(* of its command-line entry point (src/scripts/initialize_database.py).   *)
(*                                                                         *)
(* The storage location is a path (a sequence of components) in a small    *)
(* file system; the storage file holds a catalogue (schema) of the objects *)
(* named like the five tables, and the row ids of each table.  Each        *)
(* process is a caller of initialize_database: the script, which calls it  *)
(* with the default path and prints the confirmation, or another caller.   *)
(***************************************************************************)
EXTENDS Integers, Sequences, FiniteSets

\* ------------------------------------------------------------- bounds
MaxCalls == 2       \* calls of initialize_database per process
MaxRowOps == 1      \* rows inserted by other components (Spec, SpecConc)
MaxForeign == 1     \* objects of another shape present at the start
MaxOps == 4         \* row operations of SpecRows

Procs == {1, 2}

\* ------------------------------------------------------------- paths
\* db_path's default, database.py line 4, as its components.
DefaultPath == <<"data", "nexus.db">>

\* A path without a directory part, a nested one, and two under a directory
\* the caller may not write to.
Paths ==
  { DefaultPath, <<"nexus.db">>, <<"a", "b", "nexus.db">>,
    <<"ro", "sub", "nexus.db">>, <<"ro", "nexus.db">> }

ReadOnlyDirs == { <<"ro">> }

\* The locations that may hold a storage file before the first call.
ExistingLocations == { DefaultPath, <<"nexus.db">> }

\* os.path.dirname: everything before the last component ('' for a bare name).
dirname(p) == SubSeq(p, 1, Len(p) - 1)

Ok(ds) == [err |-> "none", dirs |-> ds]

\* os.makedirs(name, exist_ok=True): the missing ancestors first, then name.
RECURSIVE makedirs(_, _)
makedirs(name, ds) ==
  IF name = <<>> THEN [err |-> "FileNotFoundError", dirs |-> ds]
  ELSE IF name \in ds THEN Ok(ds)
  ELSE LET head == dirname(name)
           r == IF head # <<>> /\ head \notin ds THEN makedirs(head, ds) ELSE Ok(ds)
       IN IF r.err # "none" THEN r
          ELSE IF head \in ReadOnlyDirs THEN [err |-> "PermissionError", dirs |-> r.dirs]
          ELSE Ok(r.dirs \cup {name})

\* ------------------------------------------------------------- schema
NoObject == [type |-> "none", autoinc |-> FALSE, cols |-> {}]
OtherTable == [type |-> "table", autoinc |-> FALSE, cols |-> {"x"}]
OtherIndex == [type |-> "index", autoinc |-> FALSE, cols |-> {"x"}]

TableDDLNoAutoincrement(t) ==
  [type |-> "table", autoinc |-> FALSE, cols |-> {"id", "created_at"}]

\* The table each CREATE TABLE statement declares (its columns, and the
\* AUTOINCREMENT of its id).
TableDDL(t) ==
  [type |-> "table", autoinc |-> TRUE,
   cols |-> CASE t = "goals" ->
                   {"id", "title", "description", "type", "deadline",
                    "priority", "status", "created_at"}
              [] t = "tasks" ->
                   {"id", "goal_id", "title", "description", "status",
                    "deadline", "estimated_hours", "created_at"}
              [] t = "daily_logs" -> {"id", "date", "notes", "created_at"}
              [] t = "calendar_events" ->
                   {"id", "external_id", "title", "start_time", "end_time",
                    "source", "created_at"}
              [] OTHER -> {"id", "pattern_type", "data", "created_at"}]

Stmt(t) == [kind |-> "CREATE", ifNotExists |-> TRUE, name |-> t]

StatementsWithoutPatterns ==
  << Stmt("goals"), Stmt("tasks"), Stmt("daily_logs"), Stmt("calendar_events") >>

\* The statements initialize_database executes, in order.
Statements ==
  << Stmt("goals"), Stmt("tasks"), Stmt("daily_logs"), Stmt("calendar_events"),
     Stmt("patterns") >>

TableNames == {"goals", "tasks", "daily_logs", "calendar_events", "patterns"}


\* ------------------------------------------------------------- engine
\* sqlite3's default (legacy) transaction control: execute() opens a
\* transaction before these statements only; any other statement, CREATE
\* included, runs in autocommit mode and is durable as it completes.
BeginsTransactionAlways(kind) == TRUE

BeginsTransaction(kind) == kind \in {"INSERT", "UPDATE", "DELETE", "REPLACE"}

\* DROP TABLE IF EXISTS followed by CREATE TABLE.
CreateTableDropFirst(s, obj, rws) ==
  IF obj.type = "index"
  THEN [err |-> "OperationalError", obj |-> obj, rows |-> rws]
  ELSE [err |-> "none", obj |-> TableDDL(s.name), rows |-> {}]

\* CREATE TABLE without IF NOT EXISTS.
CreateTableNoIfNotExists(s, obj, rws) ==
  IF obj.type # "none"
  THEN [err |-> "OperationalError", obj |-> obj, rows |-> rws]
  ELSE [err |-> "none", obj |-> TableDDL(s.name), rows |-> rws]

\* A mismatch of shape reported as an error.
CreateTableCheckingShape(s, obj, rws) ==
  IF obj.type = "none"
  THEN [err |-> "none", obj |-> TableDDL(s.name), rows |-> rws]
  ELSE IF obj = TableDDL(s.name)
  THEN [err |-> "none", obj |-> obj, rows |-> rws]
  ELSE [err |-> "OperationalError", obj |-> obj, rows |-> rws]

\* cursor.execute('CREATE TABLE IF NOT EXISTS <name> (...)') against the object
\* obj the catalogue holds under that name, whose rows are rws: a table or a
\* view of that name makes the statement a no-op, whatever its shape; an index
\* of that name is an error ("there is already an index named ..."); otherwise
\* the declared table is created.
CreateTable(s, obj, rws) ==
  IF obj.type \in {"table", "view"}
  THEN IF s.ifNotExists
       THEN [err |-> "none", obj |-> obj, rows |-> rws]
       ELSE [err |-> "OperationalError", obj |-> obj, rows |-> rws]
  ELSE IF obj.type = "index"
  THEN [err |-> "OperationalError", obj |-> obj, rows |-> rws]
  ELSE [err |-> "none", obj |-> TableDDL(s.name), rows |-> rws]

Max(S) == IF S = {} THEN 0 ELSE CHOOSE x \in S : \A y \in S : y <= x

\* The id given to a row inserted without one: with AUTOINCREMENT one more than
\* the largest id the table ever held (sqlite_sequence), else one more than the
\* largest id it holds now.
NextId(obj, rws, sq) ==
  IF obj.autoinc THEN Max(rws \cup {sq}) + 1 ELSE Max(rws) + 1

\* ------------------------------------------------------------- state
VARIABLES
  db_path,   \* the storage location every call is given
  dirs,      \* the directories that exist
  file,      \* whether the storage file exists
  schema,    \* committed catalogue: name -> object
  rows,      \* committed rows: name -> set of ids
  seq,       \* sqlite_sequence: name -> largest id ever assigned
  pending,   \* per process: tables created in its open transaction
  pc,        \* per process: position in initialize_database / the script
  stmt,      \* per process: index of the next statement to execute
  conn,      \* per process: "none", "open" or "closed"
  err,       \* per process: the exception raised ("none" if none)
  caller,    \* per process: "script" or "api"
  calls,     \* per process: calls started
  pre,       \* per process: what held when its call started (history)
  out,       \* per process: the lines the script printed
  status,    \* per process: exit status of the script
  nops,      \* row operations by other components
  assigned   \* name -> the ids given to inserted rows, in order (history)

vars ==
  << db_path, dirs, file, schema, rows, seq, pending, pc, stmt, conn, err,
     caller, calls, pre, out, status, nops, assigned >>

Confirmation == "Database initialized successfully at data/nexus.db"

InCall == {"makedirs", "connect", "execute", "commit", "close"}

Quiescent == \A p \in Procs : pc[p] \notin InCall

Present(sch) == {n \in TableNames : sch[n].type \in {"table", "view"}}

Foreign(sch) == {n \in TableNames : sch[n] \notin {NoObject, TableDDL(n)}}

\* What a call records as it starts: the catalogue and the rows, how the
\* process's previous call ended, the row operations so far, and the rows at
\* the start of the previous call.
Snapshot(sch, rws, prev, n, prevRows) ==
  [schema |-> sch, rows |-> rws, prev |-> prev, nops |-> n, prevRows |-> prevRows]

Ancestors(p) == {SubSeq(p, 1, k) : k \in 1..(Len(p) - 1)}

\* The directory sets a location can start with: a prefix of the path's
\* ancestors, nothing below a read-only directory.
InitDirs(p) ==
  { ReadOnlyDirs \cup {d \in Ancestors(p) : Len(d) <= k} : k \in
      {j \in 0..(Len(p) - 1) :
         \A d \in Ancestors(p) : Len(d) <= j /\ d \notin ReadOnlyDirs
                                   => dirname(d) \notin ReadOnlyDirs} }

Init ==
  /\ db_path \in Paths
  /\ dirs \in InitDirs(db_path)
  /\ file \in BOOLEAN
  /\ file => /\ db_path \in ExistingLocations
             /\ dirname(db_path) \in dirs \cup {<<>>}
             /\ dirname(db_path) \notin ReadOnlyDirs
  /\ schema \in [TableNames -> {NoObject, OtherTable, OtherIndex}
                                 \cup {TableDDL(n) : n \in TableNames}]
  /\ \A n \in TableNames : schema[n] \in {NoObject, OtherTable, OtherIndex, TableDDL(n)}
  /\ Cardinality(Foreign(schema)) <= MaxForeign
  /\ ~file => Present(schema) = {} /\ Foreign(schema) = {}
  /\ rows = [n \in TableNames |-> {}]
  /\ seq = [n \in TableNames |-> 0]
  /\ pending = [p \in Procs |-> {}]
  /\ pc = [p \in Procs |-> "idle"]
  /\ stmt = [p \in Procs |-> 1]
  /\ conn = [p \in Procs |-> "none"]
  /\ err = [p \in Procs |-> "none"]
  /\ caller = [p \in Procs |-> "api"]
  /\ calls = [p \in Procs |-> 0]
  /\ pre = [p \in Procs |-> Snapshot(schema, rows, "idle", 0, rows)]
  /\ out = [p \in Procs |-> <<>>]
  /\ status = [p \in Procs |-> "running"]
  /\ nops = 0
  /\ assigned = [n \in TableNames |-> <<>>]

\* ------------------------------------------------------------- initialize_database
\* sqlite3.connect(db_path): opens the storage file, creating it when it is
\* absent; that needs the directory to exist and, to create, to be writable.
sqlite3_connect(path, ds, f) ==
  LET d == dirname(path)
  IN IF d \notin ds \cup {<<>>} THEN [err |-> "OperationalError", file |-> f]
     ELSE IF ~f /\ d \in ReadOnlyDirs THEN [err |-> "OperationalError", file |-> f]
     ELSE [err |-> "none", file |-> TRUE]

\* The exception leaves initialize_database: nothing catches it there.
Raise(p, e) ==
  /\ err' = [err EXCEPT ![p] = e]
  /\ pc' = [pc EXCEPT ![p] = "raised"]

\* A caller enters initialize_database(db_path): the script with the default
\* path, or any other caller.
Call(p, c) ==
  /\ \/ pc[p] \in {"idle", "done", "crashed"}
     \/ pc[p] \in {"returned", "raised"} /\ caller[p] = "api"
  /\ calls[p] < MaxCalls
  /\ c = "script" => db_path = DefaultPath
  /\ pc' = [pc EXCEPT ![p] = "makedirs"]
  /\ caller' = [caller EXCEPT ![p] = c]
  /\ calls' = [calls EXCEPT ![p] = @ + 1]
  /\ pre' = [pre EXCEPT ![p] = Snapshot(schema, rows, pc[p], nops, @.rows)]
  /\ conn' = [conn EXCEPT ![p] = "none"]
  /\ err' = [err EXCEPT ![p] = "none"]
  /\ out' = [out EXCEPT ![p] = <<>>]
  /\ status' = [status EXCEPT ![p] = "running"]
  /\ stmt' = [stmt EXCEPT ![p] = 1]
  /\ pending' = [pending EXCEPT ![p] = {}]
  /\ UNCHANGED << db_path, dirs, file, schema, rows, seq, nops, assigned >>

\* The directory step with its error swallowed.
MakedirsIgnoringErrors(p) ==
  /\ pc[p] = "makedirs"
  /\ dirs' = makedirs(dirname(db_path), dirs).dirs
  /\ pc' = [pc EXCEPT ![p] = "connect"]
  /\ UNCHANGED << db_path, file, schema, rows, seq, pending, stmt, conn, err,
                  caller, calls, pre, out, status, nops, assigned >>

\* os.makedirs(os.path.dirname(db_path), exist_ok=True)
Makedirs(p) ==
  /\ pc[p] = "makedirs"
  /\ LET r == makedirs(dirname(db_path), dirs)
     IN /\ dirs' = r.dirs
        /\ IF r.err = "none"
           THEN pc' = [pc EXCEPT ![p] = "connect"] /\ UNCHANGED err
           ELSE Raise(p, r.err)
  /\ UNCHANGED << db_path, file, schema, rows, seq, pending, stmt, conn,
                  caller, calls, pre, out, status,
                  nops, assigned >>

\* conn = sqlite3.connect(db_path); cursor = conn.cursor()
Connect(p) ==
  /\ pc[p] = "connect"
  /\ LET r == sqlite3_connect(db_path, dirs, file)
     IN /\ file' = r.file
        /\ IF r.err = "none"
           THEN /\ conn' = [conn EXCEPT ![p] = "open"]
                /\ pc' = [pc EXCEPT ![p] = "execute"]
                /\ UNCHANGED err
           ELSE Raise(p, r.err) /\ UNCHANGED conn
  /\ UNCHANGED << db_path, dirs, schema, rows, seq, pending, stmt, caller,
                  calls, pre, out, status,
                  nops, assigned >>

\* One cursor.execute('CREATE TABLE IF NOT EXISTS ...'): the statement is
\* atomic in the engine, and durable at once unless a transaction is open.
Execute(p) ==
  /\ pc[p] = "execute"
  /\ LET s == Statements[stmt[p]]
         n == s.name
         obj == IF n \in pending[p] THEN TableDDL(n) ELSE schema[n]
         r == CreateTable(s, obj, rows[n])
     IN IF r.err # "none"
        THEN Raise(p, r.err) /\ UNCHANGED << schema, rows, pending, stmt >>
        ELSE /\ IF BeginsTransaction(s.kind)
                THEN /\ pending' = [pending EXCEPT ![p] =
                                      IF r.obj # obj THEN @ \cup {n} ELSE @]
                     /\ UNCHANGED << schema, rows >>
                ELSE /\ schema' = [schema EXCEPT ![n] = r.obj]
                     /\ rows' = [rows EXCEPT ![n] = r.rows]
                     /\ UNCHANGED pending
             /\ IF stmt[p] < Len(Statements)
                THEN stmt' = [stmt EXCEPT ![p] = @ + 1] /\ UNCHANGED pc
                ELSE pc' = [pc EXCEPT ![p] = "commit"] /\ UNCHANGED stmt
             /\ UNCHANGED err
  /\ UNCHANGED << db_path, dirs, file, seq, conn, caller, calls, pre, out,
                  status,
                  nops, assigned >>

\* conn.commit(): makes the open transaction's changes durable (none is open
\* after statements that ran in autocommit mode).
Commit(p) ==
  /\ pc[p] = "commit"
  /\ schema' = [n \in TableNames |->
                  IF n \in pending[p] THEN TableDDL(n) ELSE schema[n]]
  /\ pending' = [pending EXCEPT ![p] = {}]
  /\ pc' = [pc EXCEPT ![p] = "close"]
  /\ UNCHANGED << db_path, dirs, file, rows, seq, stmt, conn, err, caller,
                  calls, pre, out, status,
                  nops, assigned >>

\* conn.close(), and the function returns.
Close(p) ==
  /\ pc[p] = "close"
  /\ conn' = [conn EXCEPT ![p] = "closed"]
  /\ pending' = [pending EXCEPT ![p] = {}]
  /\ pc' = [pc EXCEPT ![p] = "returned"]
  /\ UNCHANGED << db_path, dirs, file, schema, rows, seq, stmt, err, caller,
                  calls, pre, out, status,
                  nops, assigned >>

\* ------------------------------------------------------------- the script
ConfirmAnyway(p) ==
  /\ caller[p] = "script"
  /\ pc[p] \in {"returned", "raised"}
  /\ out' = [out EXCEPT ![p] = Append(@, Confirmation)]
  /\ pc' = [pc EXCEPT ![p] = "done"]
  /\ status' = [status EXCEPT ![p] = "success"]
  /\ UNCHANGED << db_path, dirs, file, schema, rows, seq, pending, stmt, conn,
                  err, caller, calls, pre, nops, assigned >>

\* print('Database initialized successfully at data/nexus.db'), reached when
\* initialize_database() returned; the script then ends with status 0.
Confirm(p) ==
  /\ caller[p] = "script"
  /\ pc[p] = "returned"
  /\ out' = [out EXCEPT ![p] = Append(@, Confirmation)]
  /\ pc' = [pc EXCEPT ![p] = "done"]
  /\ status' = [status EXCEPT ![p] = "success"]
  /\ UNCHANGED << db_path, dirs, file, schema, rows, seq, pending, stmt, conn,
                  err, caller, calls, pre, nops, assigned >>

\* The exception reaches the top of the script uncaught: the interpreter
\* prints the traceback and exits with status 1, which ends the connection.
Crash(p) ==
  /\ caller[p] = "script"
  /\ pc[p] = "raised"
  /\ pc' = [pc EXCEPT ![p] = "crashed"]
  /\ status' = [status EXCEPT ![p] = "error"]
  /\ conn' = [conn EXCEPT ![p] = IF @ = "open" THEN "closed" ELSE @]
  /\ pending' = [pending EXCEPT ![p] = {}]
  /\ UNCHANGED << db_path, dirs, file, schema, rows, seq, stmt, err, caller,
                  calls, pre, out, nops, assigned >>

\* ------------------------------------------------------------- other components
\* A component inserts a row, without an id, into table t.
Insert(t) ==
  /\ file
  /\ schema[t].type = "table"
  /\ LET id == NextId(schema[t], rows[t], seq[t])
     IN /\ rows' = [rows EXCEPT ![t] = @ \cup {id}]
        /\ seq' = IF schema[t].autoinc THEN [seq EXCEPT ![t] = id] ELSE seq
        /\ assigned' = [assigned EXCEPT ![t] = Append(@, id)]
  /\ nops' = nops + 1
  /\ UNCHANGED << db_path, dirs, file, schema, pending, pc, stmt, conn, err,
                  caller, calls, pre, out, status >>

\* A component deletes the row id of table t.
Delete(t, id) ==
  /\ id \in rows[t]
  /\ rows' = [rows EXCEPT ![t] = @ \ {id}]
  /\ nops' = nops + 1
  /\ UNCHANGED << db_path, dirs, file, schema, seq, pending, pc, stmt, conn,
                  err, caller, calls, pre, out, status, assigned >>

\* ------------------------------------------------------------- specifications
Step(p) ==
  \/ \E c \in {"script", "api"} : Call(p, c)
  \/ Makedirs(p)
  \/ Connect(p)
  \/ Execute(p)
  \/ Commit(p)
  \/ Close(p)
  \/ Confirm(p)
  \/ Crash(p)

\* One caller at a time; other components write between the calls.
Next ==
  \/ Step(1)
  \/ Quiescent /\ nops < MaxRowOps /\ \E t \in TableNames : Insert(t)

Spec == Init /\ [][Next]_vars

\* A run of the script by process p: one call, then the confirmation or
\* the crash.
Run(p) ==
  \/ pc[p] = "idle" /\ Call(p, "script")
  \/ Makedirs(p)
  \/ Connect(p)
  \/ Execute(p)
  \/ Commit(p)
  \/ Close(p)
  \/ Confirm(p)

\* Two processes run the script against the default location, their steps
\* interleaved, while another component writes.
InitConc == Init /\ db_path = DefaultPath /\ Foreign(schema) = {}

NextConc ==
  \/ \E p \in Procs : Run(p)
  \/ nops < MaxRowOps /\ \E t \in TableNames : Insert(t)

SpecConc == InitConc /\ [][NextConc]_vars

\* A fresh default location, initialized by the script, then used by other
\* components.
InitRows == Init /\ db_path = DefaultPath /\ ~file

NextRows ==
  \/ Run(1)
  \/ Quiescent /\ nops < MaxOps /\ \E t \in TableNames : Insert(t)
  \/ Quiescent /\ nops < MaxOps /\ \E t \in TableNames : \E id \in rows[t] : Delete(t, id)

SpecRows == InitRows /\ [][NextRows]_vars

\* ------------------------------------------------------------- properties
Succeeded(p) == pc[p] \in {"returned", "done"}

Failed(p) == pc[p] \in {"raised", "crashed"}

\* Process p's call has returned and no component has written since it began.
JustReturned(p) == Succeeded(p) /\ nops = pre[p].nops

Range(q) == {q[i] : i \in 1..Len(q)}

\* The directory of the path is missing and cannot be created.
CannotCreate ==
  /\ dirname(db_path) # <<>>
  /\ dirname(db_path) \notin dirs
  /\ makedirs(dirname(db_path), dirs).err # "none"

\* Every missing directory on the path lies in a directory that can be
\* written to.
Writable(path) ==
  \A d \in Ancestors(path) : d \notin dirs => dirname(d) \notin ReadOnlyDirs

\* C1: a call that directly follows a successful call on the same location
\* never raises, and when it returns the catalogue and every row are what
\* they were when it began (the rows written between the two calls included).
C1_Idempotent ==
  \A p \in Procs :
    pre[p].prev \in {"returned", "done"} =>
      /\ ~Failed(p) /\ err[p] = "none"
      /\ JustReturned(p) =>
           /\ Present(schema) = TableNames
           /\ schema = pre[p].schema
           /\ rows = pre[p].rows

\* C1 witness: a second call has returned after a row was written between the
\* two calls.
C1_Witness ==
  /\ pre[1].prev \in {"returned", "done"}
  /\ JustReturned(1)
  /\ calls[1] = 2
  /\ \E n \in TableNames : rows[n] # {} /\ pre[1].prevRows[n] = {}

\* C2 (as claimed): once initialize_database has returned or raised, the
\* connection it opened is no longer open.
C2_ConnectionReleased ==
  \A p \in Procs : pc[p] \in {"returned", "raised"} => conn[p] # "open"

\* C3: whatever subset of the tables existed, a call that returns leaves all
\* five names holding a table, nothing uncommitted, and every object and row
\* that existed before the call as it was.
C3_Postcondition ==
  \A p \in Procs :
    JustReturned(p) =>
      /\ Present(schema) = TableNames
      /\ pending[p] = {}
      /\ \A n \in Present(pre[p].schema) :
           schema[n] = pre[p].schema[n] /\ rows[n] = pre[p].rows[n]
      /\ \A n \in TableNames \ Present(pre[p].schema) : schema[n] = TableDDL(n)

\* C3 witness: a call has returned that began with some, not all, of the
\* tables, one of them holding a row.
C3_Witness ==
  /\ JustReturned(1)
  /\ Present(pre[1].schema) \notin {{}, TableNames}
  /\ \E n \in Present(pre[1].schema) : pre[1].rows[n] # {}

\* C4 (as claimed): a call that began on storage holding an object of another
\* shape under one of the five names never reports success.
C4_ConflictFails ==
  \A p \in Procs : Foreign(pre[p].schema) # {} => ~Succeeded(p)

\* C4 (amended): an object of another shape under one of the five names is
\* left as it is, rows included; the call raises on it only when it is an
\* index, and over a table of another shape it may return.
C4_ConflictKept ==
  \A p \in Procs :
    /\ \A n \in Foreign(pre[p].schema) :
         /\ schema[n] = pre[p].schema[n]
         /\ nops = pre[p].nops => rows[n] = pre[p].rows[n]
         /\ Succeeded(p) => schema[n].type = "table"
    /\ Failed(p) /\ conn[p] # "none" =>
         /\ err[p] = "OperationalError"
         /\ schema[Statements[stmt[p]].name].type = "index"

\* C4 witness: a call has returned over a table of another shape that holds a
\* row.
C4_Witness ==
  /\ JustReturned(1)
  /\ \E n \in Foreign(pre[1].schema) : schema[n] = OtherTable /\ rows[n] # {}

\* C5 (as claimed): after a failed call the file holds either the tables it
\* held before the call or all five.
C5_Atomic ==
  \A p \in Procs :
    Failed(p) => Present(schema) \in {Present(pre[p].schema), TableNames}

\* C5 (amended): a failed call reports no success and rolls nothing back: the
\* file holds the tables it held before the call and those of the statements
\* that completed before the failing one.
C5_PrefixKept ==
  \A p \in Procs :
    Failed(p) =>
      /\ out[p] = <<>> /\ status[p] # "success"
      /\ Present(schema) =
           Present(pre[p].schema) \cup
             (IF conn[p] = "none" THEN {}
              ELSE {Statements[i].name : i \in 1..(stmt[p] - 1)})

\* C5 witness: a call has failed after creating some of the tables.
C5_Witness ==
  /\ Failed(1)
  /\ Present(schema) # Present(pre[1].schema)
  /\ Present(schema) # TableNames

\* C6: when the directory of the path is missing and cannot be created, the
\* call ends at os.makedirs with its OSError, before any connection is opened
\* and with no storage file.
C6_DirectoryFailure ==
  \A p \in Procs :
    CannotCreate /\ pc[p] \notin {"idle", "makedirs"} =>
      /\ Failed(p)
      /\ err[p] = "PermissionError"
      /\ conn[p] = "none"
      /\ ~file

\* C6 witness: a call has failed on a directory that cannot be created.
C6_Witness == CannotCreate /\ pc[1] = "raised" /\ err[1] = "PermissionError"

\* C7: two interleaved runs on the same location never raise; once both are
\* done every name holds the declared table; and no row written before or
\* during the runs is lost.
C7_ConcurrentSafe ==
  /\ \A p \in Procs : ~Failed(p) /\ err[p] = "none"
  /\ (\A p \in Procs : pc[p] = "done") => \A n \in TableNames : schema[n] = TableDDL(n)
  /\ \A n \in TableNames : rows[n] = Range(assigned[n])

\* C7 witness: both runs are done, the second of them began while the first
\* had created some of the tables, and a row was written.
C7_Witness ==
  /\ \A p \in Procs : pc[p] = "done"
  /\ \E p \in Procs : Present(pre[p].schema) = {}
  /\ \E p \in Procs : Present(pre[p].schema) \notin {{}, TableNames}
  /\ \E n \in TableNames : rows[n] # {}

\* C8 (as claimed): for every path whose missing directories lie where they
\* can be created, the directory step succeeds and the directory exists.
C8_DirectoryBootstrap ==
  \A p \in Procs :
    Writable(db_path) /\ pc[p] \notin {"idle", "makedirs"} =>
      /\ err[p] \notin {"FileNotFoundError", "PermissionError"}
      /\ dirname(db_path) \in dirs \cup {<<>>}

\* C9: the script prints the confirmation only after initialize_database has
\* returned, and a run whose initialization raised prints nothing and ends
\* with an error status.
C9_ConfirmationOnlyOnSuccess ==
  \A p \in Procs :
    caller[p] = "script" =>
      /\ out[p] # <<>> =>
           /\ out[p] = <<Confirmation>>
           /\ pc[p] = "done" /\ status[p] = "success"
           /\ err[p] = "none" /\ conn[p] = "closed"
           /\ Present(schema) = TableNames
      /\ err[p] # "none" => out[p] = <<>> /\ Failed(p) /\ status[p] # "success"
      /\ pc[p] = "crashed" => status[p] = "error" /\ err[p] # "none"
      /\ pc[p] = "done" => out[p] # <<>>

\* C9 witness: a run of the script has ended with an error status.
C9_Witness ==
  caller[1] = "script" /\ pc[1] = "crashed" /\ status[1] = "error" /\ out[1] = <<>>

\* C10: in every declared table no id is ever given to two rows, deleted or
\* not, and the rows present carry ids that were given.
C10_IdsNeverReused ==
  \A n \in TableNames :
    schema[n] = TableDDL(n) =>
      /\ \A i, j \in 1..Len(assigned[n]) : i # j => assigned[n][i] # assigned[n][j]
      /\ rows[n] \subseteq Range(assigned[n])

\* C10 witness: a table whose first row was deleted has been given a second.
C10_Witness ==
  \E n \in TableNames :
    schema[n] = TableDDL(n) /\ assigned[n] = <<1, 2>> /\ rows[n] = {2}

====
